---- MODULE Spec2Model ----
(***************************************************************************)
(* Marketplace hooks of packages/react-core/src/evm/hooks/async/           *)
(* marketplace.ts: eight read hooks (queries) and eight write hooks        *)
(* (mutations) over a Marketplace contract handle.                         *)
(*                                                                         *)
(* The hooks themselves are translated from marketplace.ts.  The query     *)
(* engine (useQueryWithNetwork / useMutation), the cache key table         *)
(* (cacheKeys), requiredParamInvariant and invalidateContractAndBalances   *)
(* live outside the files at hand and are modelled from spec.md.           *)
(***************************************************************************)
EXTENDS Naturals, Sequences, FiniteSets, TLC

(***************************************************************************)
(* Bounds                                                                  *)
(***************************************************************************)
\* listing ids are "0" .. ToString(MaxListingId)
MaxListingId == 1
\* number of components (observers) that can mount a read hook
MaxObservers == 2
\* events kept of the NewOffer stream
MaxEvents == 3

(***************************************************************************)
(* Values                                                                  *)
(***************************************************************************)
\* JavaScript undefined and null
Absent == "undefined"
Null == "null"

\* chainId of the chain record of packages/chains/chains/1422.ts
ChainId1422 == 1422

\* useSDKChainId(): the chain id of the SDK, or undefined
ChainIds == {ToString(ChainId1422), Absent}

\* useAddress(): the connected wallet address, or undefined
Wallets == {"0xWallet", Absent}

ListingIds == {ToString(i) : i \in 0..MaxListingId}

\* ListingType of @thirdweb-dev/sdk, as imported on line 28; a caller written
\* in JavaScript can also pass a tag that is neither (here: undefined)
ListingTypeDirect == "Direct"
ListingTypeAuction == "Auction"
ListingTypes == {ListingTypeDirect, ListingTypeAuction, Absent}

\* Contract handles (RequiredParam<Marketplace>): two Marketplace instances
\* at different addresses, and instances at address A that lack one of the
\* members the hooks test with invariant() (lines 340, 397, 508, 763, 774)
\* or call right after such a test (line 400).
FullHandles == {"mktA", "mktB"}
PartialHandles ==
    {"mktA-no-direct.createListing", "mktA-no-auction.createListing",
     "mktA-no-auction.makeBid", "mktA-no-direct.buyoutListing",
     "mktA-no-auction.buyoutListing"}
Handles == FullHandles \cup PartialHandles

\* contract.getAddress()
getAddress(contract) == IF contract = "mktB" THEN "0xB" ELSE "0xA"

\* contract?.getAddress() (lines 54, 332, ...)
contractAddressOf(contract) ==
    IF contract = Absent THEN Absent ELSE getAddress(contract)

\* whether the method is a function on the handle
HasMethod(contract, method) ==
    /\ contract # Absent
    /\ \/ contract \in FullHandles
       \/ /\ contract = "mktA-no-direct.createListing"
          /\ method # "direct.createListing"
       \/ /\ contract = "mktA-no-auction.createListing"
          /\ method # "auction.createListing"
       \/ contract = "mktA-no-auction.makeBid" /\ method # "auction.makeBid"
       \/ /\ contract = "mktA-no-direct.buyoutListing"
          /\ method # "direct.buyoutListing"
       \/ /\ contract = "mktA-no-auction.buyoutListing"
          /\ method # "auction.buyoutListing"

(***************************************************************************)
(* Errors                                                                  *)
(***************************************************************************)
\* an Error: name is its class in the taxonomy of spec.md section 7, message
\* its text as a sequence of words (hasMessage FALSE: no message property)
Err(name, words) == [name |-> name, hasMessage |-> TRUE, message |-> words]
NoError == [name |-> "none", hasMessage |-> FALSE, message |-> <<>>]

UnauthenticatedError == Err("UnauthenticatedError", <<"no", "wallet", "connected">>)
MissingResourceError == Err("MissingResourceError", <<"No", "Contract", "instance", "provided">>)
MissingParameterError == Err("MissingParameterError", <<"No", "listing", "id", "provided">>)
UnsupportedOperationError == Err("UnsupportedOperationError", <<"contract", "does", "not", "support">>)
\* calling a member that is undefined
TypeError == Err("TypeError", <<"is", "not", "a", "function">>)

\* what the provider can reject with
ProviderErrors ==
    {Err("ProviderError", <<"Could", "not", "find", "auction">>),
     Err("ProviderError", <<"Error:", "Could", "not", "find", "auction", "7">>),
     Err("ProviderError", <<"Could", "not", "find", "listing">>),
     [name |-> "ProviderError", hasMessage |-> FALSE, message |-> <<>>]}

\* what the provider can resolve with
Values == {"v1", "v2"}

(***************************************************************************)
(* Outcome of running a fetcher or mutation function up to its first await *)
(***************************************************************************)
Throw(error) ==
    [kind |-> "throw", method |-> "none", args |-> <<>>, error |-> error]
Call(contract, method, args) ==
    IF HasMethod(contract, method)
    THEN [kind |-> "call", method |-> method, args |-> args, error |-> NoError]
    ELSE Throw(TypeError)
Return == [kind |-> "return", method |-> "none", args |-> <<>>, error |-> NoError]

\* a promise: pending, resolved with a value, or rejected with an error
Pending == [status |-> "pending", data |-> Absent, error |-> NoError]
Resolved(value) == [status |-> "resolved", data |-> value, error |-> NoError]
Rejected(error) == [status |-> "rejected", data |-> Absent, error |-> error]

(***************************************************************************)
(* Helpers from outside marketplace.ts                                     *)
(***************************************************************************)
\* requiredParamInvariant(condition, message): passes when the parameter is
\* present (spec.md section 7: MissingResourceError / MissingParameterError
\* when it is absent)
requiredParamInvariant(condition) == condition \notin {Absent, Null}

(***************************************************************************)
(* WRITE HOOKS: the mutation function of each hook, run on                 *)
(* (walletAddress, contract) captured at render and the data passed to     *)
(* mutate(), up to the provider call it awaits                             *)
(***************************************************************************)
\* parameters of the mutations: data.id is the listing id (listingId of
\* MakeBidParams, MakeOfferParams, AcceptDirectOffer, ExecuteAuctionSale);
\* the listing data handed to the two create hooks is named by data.id too
BuyAmount == "buyAmount"
BuyForWallet == "buyForWallet"

useCreateDirectListing(walletAddress, contract, data) ==
    IF walletAddress = Absent THEN Throw(UnauthenticatedError)
    ELSE IF ~requiredParamInvariant(contract) THEN Throw(MissingResourceError)
    ELSE IF ~HasMethod(contract, "direct.createListing")
    THEN Throw(UnsupportedOperationError)
    ELSE Call(contract, "direct.createListing", <<data.id>>)

\* line 397 tests contract.direct.createListing, line 400 calls
\* contract.auction.createListing
useCreateAuctionListing(walletAddress, contract, data) ==
    IF walletAddress = Absent THEN Throw(UnauthenticatedError)
    ELSE IF ~requiredParamInvariant(contract) THEN Throw(MissingResourceError)
    ELSE IF ~HasMethod(contract, "direct.createListing")
    THEN Throw(UnsupportedOperationError)
    ELSE Call(contract, "auction.createListing", <<data.id>>)

\* no invariant on walletAddress or contract; contract?. short-circuits to
\* undefined, which the async function returns
useCancelListing(walletAddress, contract, data) ==
    IF data.type = ListingTypeAuction
    THEN IF contract = Absent THEN Return
         ELSE Call(contract, "auction.cancelListing", <<data.id>>)
    ELSE IF contract = Absent THEN Return
         ELSE Call(contract, "direct.cancelListing", <<data.id>>)

useMakeBid(walletAddress, contract, data) ==
    IF walletAddress = Absent THEN Throw(UnauthenticatedError)
    ELSE IF ~requiredParamInvariant(contract) THEN Throw(MissingResourceError)
    ELSE IF ~HasMethod(contract, "auction.makeBid")
    THEN Throw(UnsupportedOperationError)
    ELSE Call(contract, "auction.makeBid", <<data.id, data.bid>>)

useMakeOffer(walletAddress, contract, data) ==
    IF walletAddress = Absent THEN Throw(UnauthenticatedError)
    ELSE IF ~requiredParamInvariant(contract) THEN Throw(MissingResourceError)
    ELSE Call(contract, "makeOffer",
              <<data.id, data.pricePerToken, data.quantity>>)

\* requiredParamInvariant(contract?.direct, "No Direct instance provided")
useAcceptDirectListingOffer(walletAddress, contract, data) ==
    IF walletAddress = Absent THEN Throw(UnauthenticatedError)
    ELSE IF ~requiredParamInvariant(
                IF contract = Absent THEN Absent ELSE "direct")
    THEN Throw(MissingResourceError)
    ELSE Call(contract, "direct.acceptOffer",
              <<data.id, data.addressOfOfferor>>)

\* requiredParamInvariant(contract?.auction, "No Auction marketplace ...")
useExecuteAuctionSale(walletAddress, contract, data) ==
    IF walletAddress = Absent THEN Throw(UnauthenticatedError)
    ELSE IF ~requiredParamInvariant(
                IF contract = Absent THEN Absent ELSE "auction")
    THEN Throw(MissingResourceError)
    ELSE Call(contract, "auction.executeSale", <<data.id>>)

useBuyNow(walletAddress, contract, data) ==
    IF walletAddress = Absent THEN Throw(UnauthenticatedError)
    ELSE IF ~requiredParamInvariant(contract) THEN Throw(MissingResourceError)
    ELSE IF data.type = ListingTypeDirect
    THEN IF ~HasMethod(contract, "direct.buyoutListing")
         THEN Throw(UnsupportedOperationError)
         ELSE Call(contract, "direct.buyoutListing",
                   <<data.id, data.buyAmount, data.buyForWallet>>)
    ELSE IF ~HasMethod(contract, "auction.buyoutListing")
    THEN Throw(UnsupportedOperationError)
    ELSE Call(contract, "auction.buyoutListing", <<data.id>>)

WriteHooks ==
    {"useCreateDirectListing", "useCreateAuctionListing", "useCancelListing",
     "useMakeBid", "useMakeOffer", "useAcceptDirectListingOffer",
     "useExecuteAuctionSale", "useBuyNow"}

\* the function each write hook hands to useMutation
MutationFn(hook, walletAddress, contract, data) ==
    CASE hook = "useCreateDirectListing" ->
            useCreateDirectListing(walletAddress, contract, data)
      [] hook = "useCreateAuctionListing" ->
            useCreateAuctionListing(walletAddress, contract, data)
      [] hook = "useCancelListing" ->
            useCancelListing(walletAddress, contract, data)
      [] hook = "useMakeBid" -> useMakeBid(walletAddress, contract, data)
      [] hook = "useMakeOffer" -> useMakeOffer(walletAddress, contract, data)
      [] hook = "useAcceptDirectListingOffer" ->
            useAcceptDirectListingOffer(walletAddress, contract, data)
      [] hook = "useExecuteAuctionSale" ->
            useExecuteAuctionSale(walletAddress, contract, data)
      [] hook = "useBuyNow" -> useBuyNow(walletAddress, contract, data)

\* the data a caller passes to mutate(): the listing type tag matters to
\* useCancelListing and useBuyNow only
MutationData(hook) ==
    [type : IF hook \in {"useCancelListing", "useBuyNow"}
            THEN ListingTypes ELSE {Absent},
     id : ListingIds, bid : {"bid"}, pricePerToken : {"pricePerToken"},
     quantity : {"quantity"}, addressOfOfferor : {"0xOfferor"},
     buyAmount : {BuyAmount}, buyForWallet : {BuyForWallet}]

(***************************************************************************)
(* Cache keys and invalidation (utils/cache-keys, modelled from spec.md    *)
(* section 3: CacheKey is the tuple (domain, resourceAddress,              *)
(* operationName, serialized parameters); useQueryWithNetwork scopes it to *)
(* the active network)                                                     *)
(***************************************************************************)
cacheKeys(operation, contractAddress, params) ==
    [domain |-> "contract", address |-> contractAddress,
     operation |-> operation, params |-> params]

createCacheKeyWithNetwork(key, chainId) ==
    [chainId |-> chainId, domain |-> key.domain, address |-> key.address,
     operation |-> key.operation, params |-> key.params]

\* invalidateContractAndBalances(queryClient, contractAddress, chainId):
\* every cached entry of that address on that network is marked stale
invalidateContractAndBalances(queryCache, contractAddress, chainId) ==
    [k \in DOMAIN queryCache |->
        IF k.address = contractAddress /\ k.chainId = chainId
        THEN [queryCache[k] EXCEPT !.stale = TRUE]
        ELSE queryCache[k]]

\* faulty variant: invalidates only after a success, as onSuccess would
onSettledOnSuccessOnly(hook, contractAddress, activeChainId, data, error) ==
    IF error = NoError
    THEN <<[address |-> contractAddress, chainId |-> activeChainId]>>
    ELSE <<>>

\* faulty variant: drops the address captured at render
onSettledNoAddress(hook, contractAddress, activeChainId, data, error) ==
    <<[address |-> Absent, chainId |-> activeChainId]>>

\* options.onSettled of every write hook (lines 346-351, 403-408, 457-462,
\* 514-519, 571-576, 629-634, 685-690, 780-785): the invalidations it asks
\* for, whatever the mutation's data or error
onSettled(hook, contractAddress, activeChainId, data, error) ==
    <<[address |-> contractAddress, chainId |-> activeChainId]>>

(***************************************************************************)
(* useOffers (lines 708-719): the NewOffer events of useContractEvents,    *)
(* narrowed to one listing                                                 *)
(***************************************************************************)
\* a listing id beyond Number.MAX_SAFE_INTEGER, and its neighbour below
BigListingId == "9007199254740993"
BigListingIdBelow == "9007199254740992"

\* ev.data.listingId of a NewOffer event: a BigNumber, written in decimal
EventListingIds == ListingIds \cup {BigListingId, BigListingIdBelow}

\* the other field of the payload tells two offers on one listing apart
Offerors == {"0xOfferor1", "0xOfferor2"}

\* an event of useContractEvents(contract, "NewOffer")
NewOfferEvents ==
    {[eventName |-> "NewOffer",
      data |-> [listingId |-> id, offeror |-> offeror]] :
        id \in EventListingIds, offeror \in Offerors}

\* listingId: RequiredParam<BigNumberish>: decimal and hex strings, absent
OfferListingIds ==
    ListingIds \cup {"0x" \o ToString(i) : i \in 0..MaxListingId}
        \cup {BigListingId, "0x20000000000001", Absent, Null}

IsBigNumberish(value) == value \notin {Absent, Null}

\* BigNumber.from(value): the number a BigNumberish stands for, in decimal
BigNumberFrom(value) ==
    IF \E i \in 0..MaxListingId : value = "0x" \o ToString(i)
    THEN ToString(CHOOSE i \in 0..MaxListingId : value = "0x" \o ToString(i))
    ELSE IF value = "0x20000000000001" THEN BigListingId
    ELSE value

\* faulty variant: compares with === instead of BigNumber.eq
eqStrict(bigNumber, other) == bigNumber = other

\* ev.data.listingId.eq(listingId), for a listingId BigNumber.from accepts
eq(bigNumber, other) == bigNumber = BigNumberFrom(other)

\* result.data of useContractEvents: undefined, or the events so far
NoEvents == [defined |-> FALSE, events |-> <<>>]
Events(events) == [defined |-> TRUE, events |-> events]

\* what useContractEvents returns
ContractEventsResult(data, isLoading, error) ==
    [data |-> data, isLoading |-> isLoading, error |-> error]

\* useOffers(contract, listingId) rendered over result: the spread of result
\* with data replaced by result.data?.filter(...)?.map((ev) => ev.data).
\* The filter callback converts listingId for the first event it sees, which
\* throws for a listingId that is no BigNumberish.
useOffers(result, listingId) ==
    IF ~result.data.defined
    THEN [threw |-> FALSE, result |-> result]
    ELSE IF result.data.events # <<>> /\ ~IsBigNumberish(listingId)
    THEN [threw |-> TRUE, result |-> result]
    ELSE LET Test(ev) == eq(ev.data.listingId, listingId)
             filtered == SelectSeq(result.data.events, Test)
         IN [threw |-> FALSE,
             result |->
               [result EXCEPT !.data =
                   Events([i \in 1..Len(filtered) |-> filtered[i].data])]]

(***************************************************************************)
(* READ HOOKS: the key, the options and the fetcher each hook hands to     *)
(* useQueryWithNetwork                                                     *)
(***************************************************************************)
ReadHooks ==
    {"useListing", "useListings", "useListingsCount", "useActiveListings",
     "useWinningBid", "useAuctionWinner", "useBidBuffer", "useMinimumNextBid"}

\* the hooks taking a listingId
ListingHooks ==
    {"useListing", "useWinningBid", "useAuctionWinner", "useMinimumNextBid"}

\* the second argument of a hook: a listingId (RequiredParam<BigNumberish>),
\* an optional MarketplaceFilter, or nothing
Params(hook) ==
    IF hook \in ListingHooks THEN ListingIds \cup {Absent, Null}
    ELSE IF hook \in {"useListings", "useActiveListings"}
    THEN {Absent, "filter"}
    ELSE {Absent}

\* the cacheKeys.contract.marketplace entry each hook uses (lines 56, 88,
\* 115, 145, 177, 211, 250, 280)
QueryKey(hook, contract, param) ==
    LET contractAddress == contractAddressOf(contract) IN
    CASE hook = "useListing" ->
            cacheKeys("getListing", contractAddress, <<param>>)
      [] hook = "useListings" ->
            cacheKeys("getAllListings", contractAddress, <<param>>)
      [] hook = "useListingsCount" ->
            cacheKeys("getTotalCount", contractAddress, <<>>)
      [] hook = "useActiveListings" ->
            cacheKeys("getActiveListings", contractAddress, <<param>>)
      [] hook = "useWinningBid" ->
            cacheKeys("auction.getWinningBid", contractAddress, <<param>>)
      [] hook = "useAuctionWinner" ->
            cacheKeys("auction.getWinner", contractAddress, <<param>>)
      [] hook = "useBidBuffer" ->
            cacheKeys("getBidBufferBps", contractAddress, <<>>)
      [] hook = "useMinimumNextBid" ->
            cacheKeys("auction.getWinner", contractAddress, <<param>>)

\* faulty variant: enables useBidBuffer whatever the contract
EnabledAlwaysBidBuffer(hook, contract, param) ==
    IF hook \in {"useWinningBid", "useAuctionWinner", "useMinimumNextBid"}
    THEN contract # Absent /\ param # Absent
    ELSE hook = "useBidBuffer" \/ contract # Absent

\* options.enabled (lines 63, 94, 121, 152, 187, 229, 256, 290):
\* !!contract, and for three hooks && listingId !== undefined
Enabled(hook, contract, param) ==
    IF hook \in {"useWinningBid", "useAuctionWinner", "useMinimumNextBid"}
    THEN contract # Absent /\ param # Absent
    ELSE contract # Absent

\* faulty variant: useListing does not check its listingId
FetcherListingIdUnchecked(hook, contract, param) ==
    IF ~requiredParamInvariant(contract) THEN Throw(MissingResourceError)
    ELSE IF hook \in ListingHooks \ {"useListing"}
            /\ ~requiredParamInvariant(param)
    THEN Throw(MissingParameterError)
    ELSE CASE hook = "useListing" -> Call(contract, "getListing", <<param>>)
           [] hook = "useListings" ->
                 Call(contract, "getAllListings", <<param>>)
           [] hook = "useListingsCount" ->
                 Call(contract, "getTotalCount", <<>>)
           [] hook = "useActiveListings" ->
                 Call(contract, "getActiveListings", <<param>>)
           [] hook = "useWinningBid" ->
                 Call(contract, "auction.getWinningBid", <<param>>)
           [] hook = "useAuctionWinner" ->
                 Call(contract, "auction.getWinner", <<param>>)
           [] hook = "useBidBuffer" ->
                 Call(contract, "getBidBufferBps", <<>>)
           [] hook = "useMinimumNextBid" ->
                 Call(contract, "auction.getMinimumNextBid", <<param>>)

\* the query function up to the provider call it awaits or returns
Fetcher(hook, contract, param) ==
    IF ~requiredParamInvariant(contract) THEN Throw(MissingResourceError)
    ELSE IF hook \in ListingHooks /\ ~requiredParamInvariant(param)
    THEN Throw(MissingParameterError)
    ELSE CASE hook = "useListing" -> Call(contract, "getListing", <<param>>)
           [] hook = "useListings" ->
                 Call(contract, "getAllListings", <<param>>)
           [] hook = "useListingsCount" ->
                 Call(contract, "getTotalCount", <<>>)
           [] hook = "useActiveListings" ->
                 Call(contract, "getActiveListings", <<param>>)
           [] hook = "useWinningBid" ->
                 Call(contract, "auction.getWinningBid", <<param>>)
           [] hook = "useAuctionWinner" ->
                 Call(contract, "auction.getWinner", <<param>>)
           [] hook = "useBidBuffer" ->
                 Call(contract, "getBidBufferBps", <<>>)
           [] hook = "useMinimumNextBid" ->
                 Call(contract, "auction.getMinimumNextBid", <<param>>)

\* String.prototype.includes on messages kept as sequences of words
Includes(message, pattern) ==
    \E i \in 1..(Len(message) + 1) :
        /\ i + Len(pattern) - 1 <= Len(message)
        /\ SubSeq(message, i, i + Len(pattern) - 1) = pattern

CouldNotFindAuction == <<"Could", "not", "find", "auction">>

\* faulty variant: compares the whole message
ToleratedIfEqual(err) ==
    err.hasMessage /\ err.message = CouldNotFindAuction

\* line 222: (err as Error)?.message?.includes("Could not find auction")
Tolerated(err) ==
    err.hasMessage /\ Includes(err.message, CouldNotFindAuction)

\* what the query function makes of the settled provider call: only
\* useAuctionWinner has a catch (lines 219-226), the others pass it on
FetcherSettle(hook, settled) ==
    IF /\ hook = "useAuctionWinner"
       /\ settled.status = "rejected"
       /\ Tolerated(settled.error)
    THEN Resolved(Absent)
    ELSE settled

(***************************************************************************)
(* State                                                                   *)
(***************************************************************************)
VARIABLES
    \* useSDKChainId(): fixed for the life of the provider tree
    activeChainId,
    \* the mutation being run by useMutation
    mutation,
    \* the query cache: key -> entry
    queryCache,
    \* the components that mounted a read hook
    observers,
    \* the component that mounted useOffers
    offers

vars == <<activeChainId, mutation, queryCache, observers, offers>>

NoData ==
    [type |-> Absent, id |-> Absent, bid |-> Absent, pricePerToken |-> Absent,
     quantity |-> Absent, addressOfOfferor |-> Absent, buyAmount |-> Absent,
     buyForWallet |-> Absent]

\* a cache entry before its first fetch
NewEntry ==
    [result |-> Pending, settled |-> Pending, fetching |-> FALSE,
     fetcher |-> "none", source |-> "none", call |-> Return,
     stale |-> FALSE, fetches |-> 0]

NoKey == createCacheKeyWithNetwork(cacheKeys("none", Absent, <<>>), Absent)

\* a component that has not mounted a read hook
NoObserver ==
    [hook |-> "none", key |-> NoKey, enabled |-> FALSE, view |-> Pending,
     source |-> "none"]

\* useOffers not mounted; useContractEvents starts loading, with no data
NoOffers ==
    [mounted |-> FALSE, listingId |-> Absent,
     upstream |-> ContractEventsResult(NoEvents, TRUE, NoError),
     returned |-> [threw |-> FALSE,
                   result |-> ContractEventsResult(NoEvents, TRUE, NoError)]]

IdleMutation ==
    [pc |-> "idle", hook |-> "none", walletAddress |-> Absent,
     contract |-> Absent, data |-> NoData, call |-> Return,
     result |-> Pending, invalidations |-> <<>>, invalidated |-> FALSE]

Init ==
    /\ activeChainId \in ChainIds
    /\ mutation = IdleMutation
    /\ queryCache = <<>>
    /\ observers = [o \in 1..MaxObservers |-> NoObserver]
    /\ offers = NoOffers

(***************************************************************************)
(* useMutation(mutationFn, {onSettled}) (runMutation of spec.md section 6) *)
(***************************************************************************)
\* mutate(data) on a hook rendered with (walletAddress, contract): the
\* mutation function runs up to the provider call it awaits
Mutate(hook, walletAddress, contract, data) ==
    /\ mutation.pc = "idle"
    /\ LET out == MutationFn(hook, walletAddress, contract, data) IN
       mutation' =
         [pc |-> IF out.kind = "call" THEN "awaiting" ELSE "executed",
          hook |-> hook, walletAddress |-> walletAddress,
          contract |-> contract, data |-> data, call |-> out,
          result |-> CASE out.kind = "call" -> Pending
                       [] out.kind = "throw" -> Rejected(out.error)
                       [] out.kind = "return" -> Resolved(Absent),
          invalidations |-> <<>>, invalidated |-> FALSE]
    /\ UNCHANGED <<activeChainId, queryCache, observers, offers>>

\* the awaited provider call settles: the mutation function returns its
\* value or rethrows its error
MutationSettle(settled) ==
    /\ mutation.pc = "awaiting"
    /\ mutation' = [mutation EXCEPT !.pc = "executed", !.result = settled]
    /\ UNCHANGED <<activeChainId, queryCache, observers, offers>>

RECURSIVE Invalidate(_, _)
Invalidate(cache, requests) ==
    IF requests = <<>> THEN cache
    ELSE Invalidate(
            invalidateContractAndBalances(
                cache, Head(requests).address, Head(requests).chainId),
            Tail(requests))

\* the mutation function has settled: useMutation runs options.onSettled,
\* which starts the invalidation
OnSettled ==
    /\ mutation.pc = "executed"
    /\ LET requests ==
             onSettled(mutation.hook, contractAddressOf(mutation.contract),
                       activeChainId, mutation.result.data,
                       mutation.result.error)
       IN /\ mutation' = [mutation EXCEPT !.pc = "onSettledRun",
                                          !.invalidations = requests]
          /\ queryCache' = Invalidate(queryCache, requests)
    /\ UNCHANGED <<activeChainId, observers, offers>>

\* the invalidation started by onSettled completes: the promise returned by
\* invalidateContractAndBalances resolves (it may also never do so)
InvalidationComplete ==
    /\ mutation.pc = "onSettledRun"
    /\ ~mutation.invalidated
    /\ mutation' = [mutation EXCEPT !.invalidated = TRUE]
    /\ UNCHANGED <<activeChainId, queryCache, observers, offers>>

\* the mutation is reported settled to the caller (mutateAsync's promise,
\* the hook's isLoading/error).  options.onSettled of every write hook is an
\* arrow function with an expression body, so it returns the promise of
\* invalidateContractAndBalances, and useMutation awaits what onSettled
\* returns before it settles the mutation with the mutation function's
\* outcome.
ReportSettled ==
    /\ mutation.pc = "onSettledRun"
    /\ mutation.invalidated
    /\ mutation' = [mutation EXCEPT !.pc = "settled"]
    /\ UNCHANGED <<activeChainId, queryCache, observers, offers>>

\* the caller is done with the settled mutation (reset(), or a next mutate)
Reset ==
    /\ mutation.pc = "settled"
    /\ mutation' = IdleMutation
    /\ UNCHANGED <<activeChainId, queryCache, observers, offers>>

(***************************************************************************)
(* useQueryWithNetwork(key, fetcher, {enabled}) (runQuery of spec.md       *)
(* section 6): execute the fetcher or return what is cached, one           *)
(* outstanding fetch per key, the result fanned out to every waiter        *)
(***************************************************************************)
\* faulty variant: starts a fetch for every enabled read
ShouldFetchAlways(cache, key) == TRUE

\* an enabled read executes the fetcher when the key has no entry, or a
\* stale one with no fetch outstanding; otherwise it joins or reuses it
ShouldFetch(cache, key) ==
    \/ key \notin DOMAIN cache
    \/ cache[key].stale /\ ~cache[key].fetching

\* component o renders hook(contract, param); the components are alike, so
\* they are taken to mount in the order of their numbers
Read(o, hook, contract, param) ==
    /\ observers[o].hook = "none"
    /\ \A p \in 1..(o - 1) : observers[p].hook # "none"
    /\ LET key == createCacheKeyWithNetwork(
                      QueryKey(hook, contract, param), activeChainId)
           enabled == Enabled(hook, contract, param)
           old == IF key \in DOMAIN queryCache
                  THEN queryCache[key] ELSE NewEntry
           out == Fetcher(hook, contract, param)
           entry ==
             IF ~ShouldFetch(queryCache, key) THEN old
             ELSE IF out.kind = "call"
             THEN [old EXCEPT !.fetching = TRUE, !.fetcher = hook,
                              !.call = out, !.stale = FALSE,
                              !.fetches = @ + 1]
             ELSE [old EXCEPT !.result = Rejected(out.error),
                              !.source = hook, !.stale = FALSE]
       IN /\ observers' =
               [observers EXCEPT ![o] =
                   [hook |-> hook, key |-> key, enabled |-> enabled,
                    view |-> IF enabled THEN entry.result ELSE Pending,
                    source |-> IF enabled THEN entry.source ELSE "none"]]
          /\ queryCache' =
               IF enabled
               THEN [k \in DOMAIN queryCache \cup {key} |->
                        IF k = key THEN entry ELSE queryCache[k]]
               ELSE queryCache
    /\ UNCHANGED <<activeChainId, mutation, offers>>

\* the provider call awaited by the fetch of key settles; the query function
\* finishes and its outcome goes to the entry and to every waiter
QuerySettle(key, settled) ==
    /\ key \in DOMAIN queryCache
    /\ queryCache[key].fetching
    /\ LET entry == queryCache[key]
           result == FetcherSettle(entry.fetcher, settled)
       IN /\ queryCache' =
               [queryCache EXCEPT ![key] =
                   [entry EXCEPT !.result = result, !.settled = settled,
                                 !.fetching = FALSE, !.fetcher = "none",
                                 !.source = entry.fetcher]]
          /\ observers' =
               [o \in DOMAIN observers |->
                   IF observers[o].enabled /\ observers[o].key = key
                   THEN [observers[o] EXCEPT !.view = result,
                                             !.source = entry.fetcher]
                   ELSE observers[o]]
    /\ UNCHANGED <<activeChainId, mutation, offers>>

\* what a provider call can settle with
ProviderOutcomes ==
    {Resolved(value) : value \in Values}
        \cup {Rejected(error) : error \in ProviderErrors}

\* the steps of the read hooks, with the hooks' arguments and the provider's
\* answers drawn from the given sets
NextReadOver(hooks, contracts, params, outcomes) ==
    \/ \E o \in 1..MaxObservers, hook \in hooks, contract \in contracts :
          \E param \in Params(hook) \cap params :
             Read(o, hook, contract, param)
    \/ \E key \in DOMAIN queryCache, settled \in outcomes :
          QuerySettle(key, settled)

NextRead ==
    NextReadOver(ReadHooks, FullHandles \cup {Absent},
                 ListingIds \cup {Absent, Null, "filter"}, ProviderOutcomes)

\* the read hooks alone
SpecRead == Init /\ [][NextRead]_vars

\* the steps of the write hooks, with the hooks' arguments and the
\* provider's answers drawn from the given sets
NextWriteOver(hooks, wallets, contracts, types, ids, outcomes) ==
    \/ \E hook \in hooks, walletAddress \in wallets, contract \in contracts :
          \E data \in MutationData(hook) :
             /\ data.type \in types
             /\ data.id \in ids
             /\ Mutate(hook, walletAddress, contract, data)
    \/ \E settled \in outcomes : MutationSettle(settled)
    \/ OnSettled
    \/ InvalidationComplete
    \/ ReportSettled
    \/ Reset

NextWrite ==
    NextWriteOver(WriteHooks, Wallets, Handles \cup {Absent}, ListingTypes,
                  ListingIds, ProviderOutcomes)

\* the write hooks alone
SpecWrite == Init /\ [][NextWrite]_vars

\* Reads and writes together.  The reads are of two hooks on either contract
\* and the writes are by a connected wallet; the provider answers with one
\* value or one error.
Next ==
    \/ NextReadOver({"useListing", "useBidBuffer"}, FullHandles, {"0", Absent},
                    {Resolved("v1"), Rejected(Err("ProviderError", <<"Could", "not", "find", "listing">>))})
    \/ NextWriteOver(WriteHooks, {"0xWallet"}, FullHandles \cup {Absent},
                     {Absent, ListingTypeAuction}, {"0"},
                     {Resolved("v1"), Rejected(Err("ProviderError", <<"Could", "not", "find", "listing">>))})

Spec == Init /\ [][Next]_vars

(***************************************************************************)
(* useOffers: the component renders again on every change of the events    *)
(***************************************************************************)
\* a component renders useOffers(contract, listingId) for the first time
RenderOffers(listingId) ==
    /\ ~offers.mounted
    /\ offers' = [offers EXCEPT !.mounted = TRUE, !.listingId = listingId,
                                !.returned = useOffers(offers.upstream, listingId)]
    /\ UNCHANGED <<activeChainId, mutation, queryCache, observers>>

\* useContractEvents hands the component a new result, and useOffers is
\* rendered over it
ContractEvents(result) ==
    /\ offers.mounted
    /\ result # offers.upstream
    /\ offers' = [offers EXCEPT !.upstream = result,
                                !.returned = useOffers(result, offers.listingId)]
    /\ UNCHANGED <<activeChainId, mutation, queryCache, observers>>

\* the results useContractEvents can move to: the past events arrive, a new
\* event is appended, the query fails
NextContractEvents(result) ==
    {ContractEventsResult(Events(<<>>), FALSE, result.error)}
    \cup {ContractEventsResult(Events(Append(result.data.events, ev)),
                               FALSE, result.error) :
            ev \in IF Len(result.data.events) < MaxEvents
                   THEN NewOfferEvents ELSE {}}
    \cup {ContractEventsResult(result.data, FALSE,
                               Err("ProviderError", <<"events", "failed">>))}

NextOffers ==
    \/ \E listingId \in OfferListingIds : RenderOffers(listingId)
    \/ \E result \in NextContractEvents(offers.upstream) :
          ContractEvents(result)

\* useOffers alone
SpecOffers == Init /\ [][NextOffers]_vars

(***************************************************************************)
(* Claims about the write hooks, checked under SpecWrite                   *)
(***************************************************************************)
\* a write hook has been invoked with no wallet connected
NoWalletInvocation ==
    mutation.pc # "idle" /\ mutation.walletAddress = Absent

\* C1: for every write hook, a mutation invoked with no active wallet address
\* fails with the unauthenticated error and calls no provider method.
\* (Violated: useCancelListing never looks at the wallet.)
C1_NoWalletIsUnauthenticated ==
    NoWalletInvocation => mutation.call = Throw(UnauthenticatedError)

\* C5: every mutation invocation that settles (provider call resolved,
\* provider call rejected, or a precondition failed) has triggered exactly one
\* invalidation, for the contract's address and the active chain id, by the
\* time it is reported settled.
C5_SettledInvalidatedOnce ==
    mutation.pc = "settled" =>
        mutation.invalidations =
            <<[address |-> contractAddressOf(mutation.contract),
               chainId |-> activeChainId]>>

\* C5 witness: a mutation whose provider call rejected is reported settled
C5_Witness_RejectedCallSettled ==
    /\ mutation.pc = "settled"
    /\ mutation.call.kind = "call"
    /\ mutation.result.status = "rejected"
    /\ mutation.contract # Absent
    /\ Len(mutation.invalidations) = 1

\* C6: for every write hook, a mutation invoked with a wallet but no contract
\* handle fails with the missing-resource error and calls no provider method.
\* (Violated: useCancelListing resolves with undefined.)
C6_NoContractIsMissingResource ==
    (/\ mutation.pc # "idle"
     /\ mutation.walletAddress # Absent
     /\ mutation.contract = Absent)
    => mutation.call = Throw(MissingResourceError)

\* C7: with a wallet and a handle, each write hook tests the very member it
\* then calls: when the handle has it the provider is called through it, and
\* when the handle lacks it the mutation fails with the unsupported-operation
\* error and no call is made.  In particular useCreateAuctionListing depends
\* on auction.createListing and not on direct.createListing.
\* (Violated: useCreateAuctionListing tests direct.createListing.)
C7_CheckedMemberIsCalledMember ==
    (/\ mutation.pc # "idle"
     /\ mutation.walletAddress # Absent
     /\ mutation.contract # Absent)
    => LET type == mutation.data.type
           member ==
             CASE mutation.hook = "useCreateDirectListing" ->
                     "direct.createListing"
               [] mutation.hook = "useCreateAuctionListing" ->
                     "auction.createListing"
               [] mutation.hook = "useCancelListing" ->
                     IF type = ListingTypeAuction
                     THEN "auction.cancelListing" ELSE "direct.cancelListing"
               [] mutation.hook = "useMakeBid" -> "auction.makeBid"
               [] mutation.hook = "useMakeOffer" -> "makeOffer"
               [] mutation.hook = "useAcceptDirectListingOffer" ->
                     "direct.acceptOffer"
               [] mutation.hook = "useExecuteAuctionSale" ->
                     "auction.executeSale"
               [] mutation.hook = "useBuyNow" ->
                     IF type = ListingTypeDirect
                     THEN "direct.buyoutListing" ELSE "auction.buyoutListing"
       IN IF HasMethod(mutation.contract, member)
          THEN mutation.call.kind = "call" /\ mutation.call.method = member
          ELSE mutation.call = Throw(UnsupportedOperationError)

\* C8: useCancelListing and useBuyNow pick the sub-path from the listing type
\* tag with no fallback: the auction method is called only for the tag
\* Auction, the direct method only for the tag Direct, exactly one of the two
\* is called per invocation, and the id is passed unchanged.
\* Stated for the invocations that get past the hook's own checks (a wallet
\* and a full handle), where a provider call is due whatever the reading.
\* (Violated: both hooks send every other tag down their else branch.)
C8_DispatchByTagNoFallback ==
    (/\ mutation.pc # "idle"
     /\ mutation.hook \in {"useCancelListing", "useBuyNow"}
     /\ mutation.walletAddress # Absent
     /\ mutation.contract \in FullHandles)
    => /\ mutation.call.kind = "call"
       /\ mutation.call.method \in
            {"auction.cancelListing", "auction.buyoutListing"}
          => mutation.data.type = ListingTypeAuction
       /\ mutation.call.method \in
            {"direct.cancelListing", "direct.buyoutListing"}
          => mutation.data.type = ListingTypeDirect
       /\ mutation.call.args[1] = mutation.data.id

\* C11: invalidation is fire-and-forget relative to the mutation's result:
\* once onSettled has started the invalidation, the mutation can be reported
\* settled whether or not the invalidation has completed, so an invalidation
\* that never completes does not delay it; and what is reported is the
\* outcome of the mutation function.
\* (Violated: onSettled returns the invalidation's promise, which is awaited.)
C11_ReportDoesNotWaitForInvalidation ==
    /\ mutation.pc = "onSettledRun" => ENABLED ReportSettled
    /\ mutation.pc = "settled" =>
          mutation.result =
            CASE mutation.call.kind = "throw" -> Rejected(mutation.call.error)
              [] mutation.call.kind = "return" -> Resolved(Absent)
              [] OTHER -> mutation.result

(***************************************************************************)
(* Claims about the read hooks, checked under SpecRead                     *)
(***************************************************************************)
Mounted(o) == observers[o].hook # "none"

\* C2: two different read hooks never share a cache key (here: two hooks
\* that run their queries), so no component is handed, as its data, the
\* result another read hook's fetcher produced.
\* (Violated: useMinimumNextBid uses the key of useAuctionWinner.)
C2_DistinctHooksDistinctKeys ==
    /\ \A o1, o2 \in 1..MaxObservers :
          (/\ observers[o1].enabled
           /\ observers[o2].enabled
           /\ observers[o1].hook # observers[o2].hook)
          => observers[o1].key # observers[o2].key
    /\ \A o \in 1..MaxObservers :
          observers[o].view.status # "pending"
          => observers[o].source = observers[o].hook

\* C3: while the contract handle is absent a read hook is disabled: its
\* fetcher is never run and no provider method is called (the cache gets no
\* entry for it), and its result stays pending, never an error.
C3_AbsentContractStaysPending ==
    /\ \A o \in 1..MaxObservers :
          (Mounted(o) /\ observers[o].key.address = Absent)
          => /\ ~observers[o].enabled
             /\ observers[o].view = Pending
    /\ \A k \in DOMAIN queryCache : k.address # Absent

\* C3 witness: two different read hooks are mounted without a contract
C3_Witness_TwoHooksNoContract ==
    /\ observers[1].hook = "useListing"
    /\ observers[1].key.address = Absent
    /\ observers[1].key.params = <<"0">>
    /\ observers[2].hook = "useBidBuffer"
    /\ observers[2].key.address = Absent

\* C4: for useAuctionWinner with a contract and a listing id: when
\* auction.getWinner resolves, its value is the data; when it rejects with an
\* error whose message contains "Could not find auction", the query succeeds
\* with data undefined; when it rejects with any other error, that error is
\* the query's error, unchanged.  Every component on the key sees that result.
C4_AuctionWinnerNoWinnerYet ==
    \A k \in DOMAIN queryCache :
        LET e == queryCache[k]
            m == e.settled.error.message
            contains ==
              /\ e.settled.error.hasMessage
              /\ \E i \in 1..Len(m) :
                    \A j \in 1..4 :
                       /\ i + j - 1 <= Len(m)
                       /\ m[i + j - 1] = <<"Could", "not", "find", "auction">>[j]
        IN (e.source = "useAuctionWinner" /\ e.settled.status # "pending")
           => /\ e.settled.status = "resolved"
                 => e.result = Resolved(e.settled.data)
              /\ (e.settled.status = "rejected" /\ contains)
                 => e.result = Resolved(Absent)
              /\ (e.settled.status = "rejected" /\ ~contains)
                 => e.result = Rejected(e.settled.error)
              /\ \A o \in 1..MaxObservers :
                    (observers[o].enabled /\ observers[o].key = k
                     /\ ~e.fetching)
                    => observers[o].view = e.result

\* C4 witness: getWinner rejected with a longer message that contains the
\* phrase, and the component sees success with data undefined
C4_Witness_ToleratedRejection ==
    \E k \in DOMAIN queryCache, o \in 1..MaxObservers :
        /\ queryCache[k].source = "useAuctionWinner"
        /\ queryCache[k].settled =
             Rejected(Err("ProviderError",
                          <<"Error:", "Could", "not", "find", "auction", "7">>))
        /\ observers[o].hook = "useAuctionWinner"
        /\ observers[o].key = k
        /\ observers[o].view = Resolved(Absent)

\* C9: while a provider call for a key is outstanding, reads of that key make
\* no further provider call (one invocation serves them all), and all the
\* components waiting on a key hold the same value or the same error.
C9_OneCallPerKeySameResult ==
    /\ [][\A k \in DOMAIN queryCache :
             queryCache[k].fetching
             => queryCache'[k].fetches = queryCache[k].fetches]_vars
    /\ [](\A o1, o2 \in 1..MaxObservers :
             (/\ observers[o1].enabled
              /\ observers[o2].enabled
              /\ observers[o1].key = observers[o2].key)
             => observers[o1].view = observers[o2].view)

\* C9 witness: two components read the same key while its one provider call
\* is outstanding, and later both hold its value
C9_Witness_TwoWaitersOneCall ==
    \E k \in DOMAIN queryCache :
        /\ queryCache[k].fetches = 1
        /\ ~queryCache[k].fetching
        /\ observers[1].enabled /\ observers[1].key = k
        /\ observers[2].enabled /\ observers[2].key = k
        /\ observers[1].view.status = "resolved"
        /\ observers[2].view = observers[1].view

\* C13: no read hook calls the provider with an absent listing id.
\* useWinningBid, useAuctionWinner and useMinimumNextBid with an undefined
\* listingId are disabled and stay pending; useListing with a contract and
\* an undefined listingId, and any of the four with a contract and a null
\* listingId, run their fetcher, which fails with the missing-parameter
\* error before the provider method is reached.
C13_AbsentListingIdNeverReachesProvider ==
    /\ \A k \in DOMAIN queryCache :
          (/\ queryCache[k].call.kind = "call"
           /\ queryCache[k].call.method \in
                 {"getListing", "auction.getWinningBid", "auction.getWinner",
                  "auction.getMinimumNextBid"})
          => queryCache[k].call.args[1] \notin {Absent, Null}
    /\ \A o \in DOMAIN observers :
          LET ob == observers[o] IN
          (/\ Mounted(o)
           /\ ob.hook \in ListingHooks
           /\ ob.key.address # Absent
           /\ ob.key.params[1] \in {Absent, Null})
          => IF ob.hook # "useListing" /\ ob.key.params[1] = Absent
             THEN ~ob.enabled /\ ob.view = Pending
             ELSE /\ ob.enabled
                  /\ ob.view = Rejected(MissingParameterError)
                  /\ queryCache[ob.key].fetches = 0

\* C13 witness: useListing with a contract and an undefined listingId has
\* failed with the missing-parameter error, next to a useWinningBid with a
\* null listingId that failed the same way
C13_Witness_ListingIdMissing ==
    \E o1, o2 \in DOMAIN observers :
        /\ observers[o1].hook = "useListing"
        /\ observers[o1].key.address # Absent
        /\ observers[o1].key.params = <<Absent>>
        /\ observers[o1].view = Rejected(MissingParameterError)
        /\ observers[o2].hook = "useWinningBid"
        /\ observers[o2].key.address # Absent
        /\ observers[o2].key.params = <<Null>>
        /\ observers[o2].view = Rejected(MissingParameterError)

(***************************************************************************)
(* Claims about reads after writes, checked under Spec                     *)
(***************************************************************************)
\* component o mounts an enabled read hook on a key already in the cache
ReadsCached(o, k) ==
    /\ ~Mounted(o)
    /\ observers'[o].hook # "none"
    /\ observers'[o].enabled
    /\ observers'[o].key = k

OffersOn(events, target) ==
    {i \in 1..Len(events) :
        events[i].data.listingId = BigNumberFrom(target)}

\* C12: for every result of the NewOffer stream and a target listing id,
\* useOffers returns exactly the payloads of the events whose listingId is
\* numerically equal to the target, in upstream order and no others; when
\* the upstream data is absent so is the returned data; isLoading and error
\* are the upstream's.
C12_OffersOfTheListingInOrder ==
    (offers.mounted /\ IsBigNumberish(offers.listingId)) =>
        LET upstream == offers.upstream
            returned == offers.returned.result
            events == upstream.data.events
            on == OffersOn(events, offers.listingId)
            Nth(k) == CHOOSE i \in on : Cardinality({j \in on : j < i}) = k - 1
        IN /\ ~offers.returned.threw
           /\ returned.isLoading = upstream.isLoading
           /\ returned.error = upstream.error
           /\ returned.data.defined = upstream.data.defined
           /\ Len(returned.data.events) = Cardinality(on)
           /\ \A k \in 1..Cardinality(on) :
                 returned.data.events[k] = events[Nth(k)].data

\* C12 witness: the target is written in hex; of three events the first and
\* the last, by different offerors, are on its listing and the middle one is
\* not, and the upstream has an error; two payloads are returned
C12_Witness_TwoOfThreeOffers ==
    /\ offers.mounted
    /\ offers.listingId = "0x1"
    /\ Len(offers.upstream.data.events) = 3
    /\ offers.upstream.data.events[1].data.listingId = "1"
    /\ offers.upstream.data.events[2].data.listingId # "1"
    /\ offers.upstream.data.events[3].data.listingId = "1"
    /\ offers.upstream.data.events[1].data.offeror
          # offers.upstream.data.events[3].data.offeror
    /\ offers.upstream.error # NoError
    /\ Len(offers.returned.result.data.events) = 2

====
